---------------------------- MODULE Spec2Model ----------------------------
(***************************************************************************)
(* A model of the mcp-ts client (src/mcp-ts/client.ts) and of the mcp-ts   *)
(* server (src/unnamed/part_000, the main.ts the client launches).          *)
(*                                                                         *)
(* Strings are sequences of tokens; the empty string is <<>>.  A template  *)
(* literal is the concatenation of its pieces.  Every await of the source  *)
(* is a point where another task may run, so each action below is the code *)
(* one task runs between two awaits.                                       *)
(***************************************************************************)
EXTENDS Integers, Sequences, FiniteSets, TLC

(***************************************************************************)
(* Bounds of the model.                                                    *)
(***************************************************************************)
\* menu selections other than Exit the operator makes in one session
MaxActions == 2
\* tool calls the model may ask for in one generation call of handleQuery
MaxToolCalls == 2
\* messages of a sampling request or of a prompt a general peer may send
MaxMsgs == 2
\* users the store may hold: no call that creates a user is made beyond it
MaxUsers == 2

(***************************************************************************)
(* Strings.                                                                *)
(***************************************************************************)
\* JavaScript truthiness of a string: the empty string is falsy
Truthy(s) == s # <<>>

\* Array.prototype.join: the elements with sep between neighbours
RECURSIVE Join(_, _)
Join(ss, sep) ==
    IF ss = <<>> THEN <<>>
    ELSE IF Len(ss) = 1 THEN ss[1]
    ELSE ss[1] \o sep \o Join(Tail(ss), sep)

NL == <<"\n">>

\* Number.prototype.toString of a small natural number, as one token per digit
Digit(d) == CASE d = 0 -> "0" [] d = 1 -> "1" [] d = 2 -> "2" [] d = 3 -> "3"
              [] d = 4 -> "4" [] d = 5 -> "5" [] d = 6 -> "6" [] d = 7 -> "7"
              [] d = 8 -> "8" [] OTHER -> "9"

RECURSIVE NumToStr(_)
NumToStr(n) == IF n < 10 THEN <<Digit(n)>> ELSE NumToStr(n \div 10) \o <<Digit(n % 10)>>

Digits == {"0", "1", "2", "3", "4", "5", "6", "7", "8", "9"}

DigitVal(c) == CASE c = "0" -> 0 [] c = "1" -> 1 [] c = "2" -> 2 [] c = "3" -> 3
                 [] c = "4" -> 4 [] c = "5" -> 5 [] c = "6" -> 6 [] c = "7" -> 7
                 [] c = "8" -> 8 [] OTHER -> 9

Whitespace == {" ", "\n"}

\* String.prototype.trim
RECURSIVE TrimStart(_)
TrimStart(s) == IF s # <<>> /\ Head(s) \in Whitespace THEN TrimStart(Tail(s)) ELSE s

RECURSIVE TrimEnd(_)
TrimEnd(s) ==
    IF s # <<>> /\ s[Len(s)] \in Whitespace THEN TrimEnd(SubSeq(s, 1, Len(s) - 1)) ELSE s

Trim(s) == TrimEnd(TrimStart(s))

\* the longest prefix of s made of digits
RECURSIVE DigitPrefix(_)
DigitPrefix(s) ==
    IF s # <<>> /\ Head(s) \in Digits THEN <<Head(s)>> \o DigitPrefix(Tail(s)) ELSE <<>>

RECURSIVE DigitsVal(_, _)
DigitsVal(s, acc) ==
    IF s = <<>> THEN acc ELSE DigitsVal(Tail(s), acc * 10 + DigitVal(Head(s)))

\* parseInt(s): leading white space is skipped, an optional sign is read, then
\* the longest run of digits; NaN when there is no digit there.  What follows
\* the digits is ignored.
parseInt(s) ==
    LET t == TrimStart(s)
        neg == t # <<>> /\ Head(t) = "-"
        u == IF t # <<>> /\ Head(t) \in {"-", "+"} THEN Tail(t) ELSE t
        ds == DigitPrefix(u)
    IN  IF ds = <<>> THEN [nan |-> TRUE, val |-> 0]
        ELSE [nan |-> FALSE, val |-> IF neg THEN 0 - DigitsVal(ds, 0) ELSE DigitsVal(ds, 0)]


(***************************************************************************)
(* The server: data of src/unnamed/part_000.                               *)
(***************************************************************************)
ToolNames == {"get-coordinates", "create-user", "create-random-user"}

\* the properties of each tool's input schema, in declaration order
ToolParams(t) ==
    CASE t = "get-coordinates" -> <<"city">>
      [] t = "create-user" -> <<"name", "email">>
      [] OTHER -> <<>>

UsersAllUri == <<"users://all">>
UserDetailsTemplate == <<"users://", "{id}", "/profile">>
PromptNames == {"generate-fake-user"}
PromptArgs(p) == <<"name">>

\* the four capability lists of discovery
Lists == {"tools", "resources", "resourceTemplates", "prompts"}

\* what the server answers to each list call
ServerList(k) ==
    CASE k = "tools" -> ToolNames
      [] k = "resources" -> {UsersAllUri}
      [] k = "resourceTemplates" -> {UserDetailsTemplate}
      [] OTHER -> PromptNames

\* the token limit both programs write
SamplingMaxTokens == 1024
ClientMaxTokens == 1024

TextMessage(t) == [type |-> "text", text |-> t]
OtherMessage(ty) == [type |-> ty, text |-> <<>>]

\* the request create-random-user sends to the client
RandomUserRequest ==
    [messages |-> <<TextMessage(<<"Create a random user with fake data. The user should have a name, a valid email address and a unique int Id. Return this data as a JSON object.">>)>>,
     maxTokens |-> SamplingMaxTokens]

\* the messages the generate-fake-user prompt returns
FakeUserPrompt(name) ==
    <<TextMessage(<<"Generate a fake user with the name ">> \o name
                  \o <<". The user should have a valid email address and a unique Id.">>)>>

\* a tool result: content [{type, text}]; a call that fails at the protocol
\* level has kind "error"
TextResult(t) == [kind |-> "result", ctype |-> "text", text |-> t, isError |-> FALSE]
ProtocolError(m) == [kind |-> "error", ctype |-> "none", text |-> m, isError |-> TRUE]
NoResult == [kind |-> "none", ctype |-> "none", text |-> <<>>, isError |-> FALSE]

\* the messages of the errors that occur
MethodNotFound == <<"MCP error -32601: Method not found">>
InternalError == <<"MCP error -32603: Internal error">>
JsonSyntaxError == <<"Unexpected token in JSON">>
FetchFailed == <<"fetch failed">>
ModuleNotFound == <<"Cannot find module">>
NoSpace == <<"ENOSPC: no space left on device">>
GenerationFailed == <<"AI_APICallError">>
ResourceNotFound == <<"MCP error -32002: Resource not found">>

\* what a tool callback did: returned a result, or threw
Returned(r) == [threw |-> FALSE, res |-> r, msg |-> <<>>]
Threw(m) == [threw |-> TRUE, res |-> NoResult, msg |-> m]

(***************************************************************************)
(* get-coordinates.  The geocoding service is outside the program: the     *)
(* fetch throws, or answers without a results field, with an empty list,   *)
(* or with a first result whose latitude is a number or is zero.  The      *)
(* model draws three of these outcomes.                                    *)
(***************************************************************************)
FetchOutcomes == {"throws", "empty", "found"}

GetCoordinatesCatch(city, errorMessage) ==
    TextResult(<<"Error fetching coordinates data for ">> \o city \o <<": ">> \o errorMessage)

GetCoordinates(city, o) ==
    CASE o = "throws" -> Returned(GetCoordinatesCatch(city, FetchFailed))
      [] o = "noResultsField" ->
            Returned(GetCoordinatesCatch(city, <<"Cannot read properties of undefined (reading 'length')">>))
      [] o = "empty" -> Returned(TextResult(<<"No data found for ">> \o city \o <<".">>))
      [] o = "found" ->
            Returned(TextResult(<<"Data for ">> \o city \o <<" is ", "48.85", " and ", "2.35", "!">>))
      [] OTHER ->
            Returned(TextResult(<<"Data for ">> \o city \o <<" is ", "unknown", " and ", "unknown", "!">>))

(***************************************************************************)
(* The user store.  users.json is imported as a module: the first import   *)
(* reads the file, every later import yields the same array object, which  *)
(* createUser mutates before it writes the file.                            *)
(***************************************************************************)
\* a user as a caller passes it: a created record takes the caller's own id
\* field when there is one ({ id, ...user })
UserArg(name, email) == [name |-> name, email |-> email, hasId |-> FALSE, id |-> 0]
UserArgWithId(name, email, id) == [name |-> name, email |-> email, hasId |-> TRUE, id |-> id]

NewUserRecord(id, user) ==
    [id |-> IF user.hasId THEN user.id ELSE id, name |-> user.name, email |-> user.email]

\* as const id = users.length would
CreateUserIdZeroBased(users) == Len(users)

\* createUser up to its await of writeFile: the id and the array after push
CreateUserId(users) == Len(users) + 1
CreateUserPush(users, user) == Append(users, NewUserRecord(CreateUserId(users), user))

CreateUserOk(id, params) ==
    TextResult(<<"User ">> \o NumToStr(id) \o <<" created successfully: ">> \o params.name
               \o <<" (">> \o params.email \o <<")">>)
CreateUserCatch(errorMessage) == TextResult(<<"Error creating user: ">> \o errorMessage)

(***************************************************************************)
(* create-random-user: the text of the sampling result is parsed as JSON.  *)
(***************************************************************************)
JsonUser == "{\"name\":\"Ada\",\"email\":\"ada@example.com\"}"
JsonUserWithId == "{\"id\":7,\"name\":\"Ada\",\"email\":\"ada@example.com\"}"
JsonTokens == {JsonUser, JsonUserWithId}
Ada == <<"Ada">>
AdaEmail == <<"ada@example.com">>

JsonValue(tok) ==
    IF tok = JsonUserWithId THEN UserArgWithId(Ada, AdaEmail, 7) ELSE UserArg(Ada, AdaEmail)

\* the opening fence of a json code block (three backquotes and the word
\* json) and the closing fence (three backquotes), each as one token
FenceJson == "[fence]json"
Fence == "[fence]"

\* text.trim().replace(/^[fence]json/, "").replace(/[fence]$/, "").trim()
StripFence(text) ==
    LET a == Trim(text)
        b == IF a # <<>> /\ Head(a) = FenceJson THEN Tail(a) ELSE a
        c == IF b # <<>> /\ b[Len(b)] = Fence THEN SubSeq(b, 1, Len(b) - 1) ELSE b
    IN  Trim(c)

\* JSON.parse: one JSON value and nothing else
JsonParses(s) == Len(s) = 1 /\ s[1] \in JsonTokens

RandomUserNotText == TextResult(<<"Error: Failed to generate fake user data.">>)
RandomUserOk(id) == TextResult(<<"Fake user created successfully: ">> \o NumToStr(id))
\* as a catch that drops the error's message would
RandomUserCatchBare(errorMessage) == TextResult(<<"Error: ">>)

RandomUserCatch(errorMessage) == TextResult(<<"Error: ">> \o errorMessage)

(***************************************************************************)
(* The registry boundary around a tool callback.                            *)
(***************************************************************************)
\* a callback that throws is answered with a text result that carries the
\* error's message
ToolBoundary(o) ==
    IF o.threw THEN [kind |-> "result", ctype |-> "text", text |-> o.msg, isError |-> TRUE]
    ELSE o.res

(***************************************************************************)
(* Resources.                                                              *)
(***************************************************************************)
JsonContent(body) == [kind |-> "result", mimeType |-> "application/json", body |-> body]
ResourceError == [kind |-> "error", mimeType |-> "none",
                  body |-> [shape |-> "none", error |-> <<>>, users |-> <<>>]]
NoContent == [kind |-> "none", mimeType |-> "none",
              body |-> [shape |-> "none", error |-> <<>>, users |-> <<>>]]

\* JSON.stringify of the three bodies the handlers send
ErrorBody(reason) == [shape |-> "error", error |-> reason, users |-> <<>>]
UserBody(u) == [shape |-> "user", error |-> <<>>, users |-> <<u>>]
UsersBody(us) == [shape |-> "users", error |-> <<>>, users |-> us]

\* users.find(u => u.id === parseInt(id)): the first match, if any
FindUser(users, id) ==
    LET n == parseInt(id)
        hits == {i \in 1..Len(users) : ~n.nan /\ users[i].id = n.val}
    IN  IF hits = {} THEN <<>> ELSE <<users[CHOOSE i \in hits : \A j \in hits : i <= j]>>

UserDetails(users, id) ==
    LET user == FindUser(users, id)
    IN  IF user = <<>> THEN JsonContent(ErrorBody(<<"User not found">>))
        ELSE JsonContent(UserBody(user[1]))

UsersAll(users) == JsonContent(UsersBody(users))

\* the registry's resolution of a uri: a static resource by its exact uri,
\* else the template users://{id}/profile with a non-empty id without "/"
MatchesTemplate(uri) ==
    /\ Len(uri) >= 3
    /\ uri[1] = "users://"
    /\ uri[Len(uri)] = "/profile"
    /\ \A i \in 2..(Len(uri) - 1) : uri[i] \notin {"/", "/profile", "users://"}

TemplateId(uri) == SubSeq(uri, 2, Len(uri) - 1)

ReadResource(users, uri) ==
    IF uri = UsersAllUri THEN UsersAll(users)
    ELSE IF MatchesTemplate(uri) THEN UserDetails(users, TemplateId(uri))
    ELSE ResourceError


(***************************************************************************)
(* The client: pure parts of src/mcp-ts/client.ts.                         *)
(***************************************************************************)
MenuChoices == {"Query", "Tools", "Resources", "Prompts", "Exit"}

\* as a Tools case that lists the server's capabilities again would
MenuTargetRefetch(option) ==
    CASE option = "Query" -> "query_input"
      [] option = "Tools" -> "start"
      [] option = "Resources" -> "res_select"
      [] option = "Prompts" -> "prompt_select"
      [] OTHER -> "exited"

\* as a case "Exit" that breaks out of the switch only would
MenuTargetNoReturn(option) ==
    CASE option = "Query" -> "query_input"
      [] option = "Tools" -> "tool_select"
      [] option = "Resources" -> "res_select"
      [] option = "Prompts" -> "prompt_select"
      [] OTHER -> "menu"

\* the case of main's switch each option runs
MenuTarget(option) ==
    CASE option = "Query" -> "query_input"
      [] option = "Tools" -> "tool_select"
      [] option = "Resources" -> "res_select"
      [] option = "Prompts" -> "prompt_select"
      [] OTHER -> "exited"

\* as Promise.race would: one answer is enough
JoinReadyAny(p) == p # Lists

\* Promise.all of the four list calls resolves when none is outstanding
JoinReady(p) == p = {}

\* as a main that never calls setRequestHandler would
RegisterNothing(h) == h

\* setRequestHandler(CreateMessageRequestSchema, ...): one more registration
Register(h) == h + 1

\* handleServerMessagePrompt, its three ways out
UnsupportedMarker(type) == <<"Unsupported content type: ", type>>
CancelledMarker == <<"Prompt execution cancelled.">>
NeedsGate(message) == message.type = "text"

\* the generateText call of handleServerMessagePrompt for a message
ModelCallFor(message) == [prompt |-> message.text, maxTokens |-> ClientMaxTokens]
NoModelCall == [prompt |-> <<>>, maxTokens |-> 0]

\* as a handleServerMessagePrompt that does not test run would
ConfirmOutcomeUntested(message, run) ==
    [calls |-> TRUE, call |-> ModelCallFor(message), text |-> <<>>]

\* handleServerMessagePrompt after its confirm prompt: denied, it returns the
\* cancelled marker; confirmed, it calls the model
ConfirmOutcome(message, run) ==
    IF run THEN [calls |-> TRUE, call |-> ModelCallFor(message), text |-> <<>>]
    ELSE [calls |-> FALSE, call |-> NoModelCall, text |-> CancelledMarker]

\* as texts.unshift(text) would
PushTextFront(texts, text) == IF Truthy(text) THEN <<text>> \o texts ELSE texts

\* if (text) { texts.push(text) }
PushText(texts, text) == IF Truthy(text) THEN Append(texts, text) ELSE texts

\* as texts.join(" ") would
SamplingResultSpaces(texts) ==
    [kind |-> "result", role |-> "user", stopReason |-> "endTurn", type |-> "text",
     text |-> Join(texts, <<" ">>)]

\* the value the sampling handler returns
SamplingResult(texts) ==
    [kind |-> "result", role |-> "user", stopReason |-> "endTurn", type |-> "text",
     text |-> Join(texts, NL)]
\* the handler's promise rejected: the request is answered with an error
SamplingRejected ==
    [kind |-> "error", role |-> "none", stopReason |-> "none", type |-> "none", text |-> <<>>]

\* a running sampling handler: the request, the loop's position and texts.
\* For the record: outs is what became of each message done, asked the
\* operator's answers by message, made the generation calls issued.
NewHandler(req) ==
    [msgs |-> req.messages, maxTokens |-> req.maxTokens, idx |-> 1, texts |-> <<>>,
     st |-> "loop", call |-> NoModelCall, outs |-> <<>>, asked |-> {}, made |-> 0]

Out(how, text) == [how |-> how, text |-> text]

\* the handler's loop from message idx on, up to the next confirm prompt or
\* to the return: a message that is not text contributes its marker at once
RECURSIVE Advance(_)
Advance(h) ==
    IF h.idx > Len(h.msgs) THEN [h EXCEPT !.st = "done"]
    ELSE IF NeedsGate(h.msgs[h.idx]) THEN [h EXCEPT !.st = "confirm"]
    ELSE Advance([h EXCEPT !.texts = PushText(@, UnsupportedMarker(h.msgs[h.idx].type)),
                           !.outs = Append(@, Out("unsupported", UnsupportedMarker(h.msgs[h.idx].type))),
                           !.idx = @ + 1])

\* the operator answered the confirm prompt of message idx
OnConfirm(h, run) ==
    LET o == ConfirmOutcome(h.msgs[h.idx], run)
    IN  IF o.calls THEN [h EXCEPT !.st = "gen", !.call = o.call]
        ELSE Advance([h EXCEPT !.texts = PushText(@, o.text),
                               !.outs = Append(@, Out("cancelled", o.text)),
                               !.idx = @ + 1])

\* generateText returned text for message idx
OnModelText(h, text) ==
    Advance([h EXCEPT !.texts = PushText(@, text),
                      !.outs = Append(@, Out("model", text)),
                      !.call = NoModelCall,
                      !.idx = @ + 1])

\* generateText threw: nothing catches it in handleServerMessagePrompt or in
\* the handler, whose promise rejects
OnModelFail(h) == [h EXCEPT !.st = "failed", !.outs = Append(@, Out("failed", <<>>))]

HandlerResponse(h) == IF h.st = "done" THEN SamplingResult(h.texts) ELSE SamplingRejected

\* handleQuery's answer: text || toolResults[0]?.result?.content[0]?.text
\*                            || "No response generated."
NoResponse == <<"No response generated.">>
FirstToolText(toolResults) ==
    IF toolResults # <<>> /\ toolResults[1].ctype = "text" THEN toolResults[1].text ELSE <<>>
\* as toolResults.at(-1) in place of toolResults[0] would
QueryAnswerLastTool(text, toolResults) ==
    IF Truthy(text) THEN text
    ELSE IF toolResults # <<>> /\ Truthy(toolResults[Len(toolResults)].text)
         THEN toolResults[Len(toolResults)].text
    ELSE NoResponse

QueryAnswer(text, toolResults) ==
    IF Truthy(text) THEN text
    ELSE IF Truthy(FirstToolText(toolResults)) THEN FirstToolText(toolResults)
    ELSE NoResponse

\* uri.match(/{([^}]+)}/g): the placeholders of a uri, in order
Placeholders == {"{id}"}
ParamMatches(uri) == SelectSeq(uri, LAMBDA t : t \in Placeholders)

\* as finalUri + paramValue would
ReplaceFirstAppended(s, pat, val) == s \o val

\* String.prototype.replace with a string pattern: the first occurrence only
RECURSIVE ReplaceFirst(_, _, _)
ReplaceFirst(s, pat, val) ==
    IF s = <<>> THEN <<>>
    ELSE IF Head(s) = pat THEN val \o Tail(s)
    ELSE <<Head(s)>> \o ReplaceFirst(Tail(s), pat, val)


(***************************************************************************)
(* What the operator, the model and the services may answer.               *)
(***************************************************************************)
Paris == <<"Paris">>
InputValues(key) ==
    CASE key = "city" -> {Paris}
      [] key = "name" -> {Ada}
      [] key = "email" -> {AdaEmail}
      [] OTHER -> {<<>>, <<"1">>, <<"9">>, <<"a">>, <<"1", "a">>}

Queries == {<<"Create a user">>}

\* texts a generation call may return
ModelTexts == {<<>>, <<JsonUser>>, <<FenceJson, "\n", JsonUserWithId, "\n", Fence>>}
FinalTexts == {<<>>, <<"Sure.">>}

\* a tool call as the model asks for it, with arguments its schema accepts
ToolCall(t) ==
    [tool |-> t,
     args |-> CASE t = "get-coordinates" -> <<Paris>>
                [] t = "create-user" -> <<Ada, AdaEmail>>
                [] OTHER -> <<>>]

RECURSIVE SeqsUpTo(_, _)
SeqsUpTo(S, n) ==
    IF n = 0 THEN {<<>>}
    ELSE LET shorter == SeqsUpTo(S, n - 1)
         IN  shorter \cup {Append(q, x) : q \in shorter, x \in S}

ToolPlans == SeqsUpTo({ToolCall(t) : t \in ToolNames}, MaxToolCalls)

Eve == [id |-> 1, name |-> <<"Eve">>, email |-> <<"eve@example.com">>]
\* data/users.json when the server starts: empty, or with one user
InitialStores == {<<>>, <<Eve>>}

(***************************************************************************)
(* State.                                                                  *)
(***************************************************************************)
VARIABLES
    pc,         \* where main is
    pending,    \* the list calls not yet answered
    listCalls,  \* how often each list call was issued
    handlers,   \* how often the sampling handler was registered
    actions,    \* menu options chosen so far, Exit aside
    cur,        \* the locals of the branch main is in
    calls,      \* the callTool calls of the branch, each with its server task
    bridge,     \* the sampling handlers running on the client, by call
    loaded,     \* whether the server has imported users.json
    users,      \* the imported users array
    usersFile,  \* the content of data/users.json
    shown,      \* the responses logged since the last menu choice
    stats,      \* confirmations given that no model call has used yet
    sampled,    \* the sampling request last answered, and how
    snapshot,   \* the four lists main holds: tools, resources, templates, prompts
    created     \* the users the tool calls reported as created, in order

vars == <<pc, pending, listCalls, handlers, actions, cur, calls, bridge, loaded,
          users, usersFile, shown, stats, sampled, snapshot, created>>

NoCur == [tool |-> "", args |-> <<>>, uri |-> <<>>, params |-> <<>>, msgs |-> <<>>,
          idx |-> 0, text |-> <<>>, call |-> NoModelCall, outs |-> <<>>, asked |-> {},
          results |-> <<>>, content |-> NoContent, option |-> "", error |-> <<>>]

NoSampled == [seen |-> FALSE, registered |-> TRUE, msgs |-> <<>>, maxTokens |-> 0,
              outs |-> <<>>, asked |-> {}, made |-> 0, response |-> SamplingRejected]

Init ==
    /\ pc = "start"
    /\ pending = {}
    /\ listCalls = [k \in Lists |-> 0]
    /\ handlers = 0
    /\ actions = 0
    /\ cur = NoCur
    /\ calls = <<>>
    /\ bridge = <<>>
    /\ loaded = FALSE
    /\ usersFile \in InitialStores
    /\ users = usersFile
    /\ shown = <<>>
    /\ stats = [bridge |-> 0, prompt |-> 0]
    /\ sampled = NoSampled
    /\ snapshot = [k \in Lists |-> {}]
    /\ created = <<>>

\* both processes run until main returns or ends with an error
Alive == pc \notin {"exited", "crashed"}

\* the prompts that wait for the operator
Interactive ==
    {"menu", "query_input", "tool_select", "tool_input", "res_select", "res_input",
     "prompt_select", "prompt_input", "prompt_confirm"}

(***************************************************************************)
(* main: connect, discovery, registration, the menu.                       *)
(***************************************************************************)
\* await connect, then the four list calls go out together
Connect ==
    /\ pc = "start"
    /\ pc' = "discover"
    /\ pending' = Lists
    /\ listCalls' = [k \in Lists |-> listCalls[k] + 1]
    /\ UNCHANGED <<snapshot, created, handlers, actions, cur, calls, bridge, loaded,
                   users, usersFile, shown, stats, sampled>>

\* one list call is answered
ListReturn(k) ==
    /\ pc = "discover"
    /\ k \in pending
    /\ pending' = pending \ {k}
    /\ snapshot' = [snapshot EXCEPT ![k] = ServerList(k)]
    /\ UNCHANGED <<created, pc, listCalls, handlers, actions, cur, calls, bridge, loaded, users,
                   usersFile, shown, stats, sampled>>

\* Promise.all resolves: the handler is registered and the menu is shown
JoinAndRegister ==
    /\ pc = "discover"
    /\ JoinReady(pending)
    /\ handlers' = Register(handlers)
    /\ pc' = "menu"
    /\ UNCHANGED <<snapshot, created, pending, listCalls, actions, cur, calls, bridge, loaded, users,
                   usersFile, shown, stats, sampled>>

\* the operator chooses an option of the menu
SelectOption(option) ==
    /\ pc = "menu"
    /\ option # "Exit" => actions < MaxActions
    /\ pc' = MenuTarget(option)
    /\ actions' = IF option = "Exit" THEN actions ELSE actions + 1
    /\ shown' = <<>>
    /\ cur' = [NoCur EXCEPT !.option = option]
    /\ sampled' = NoSampled
    /\ UNCHANGED <<snapshot, created, pending, listCalls, handlers, calls, bridge, loaded, users, usersFile,
                   stats>>


(***************************************************************************)
(* callTool: the call and the server task that answers it.                 *)
(***************************************************************************)
NoUser == UserArg(<<>>, <<>>)

\* the callback is over: its result, or what the registry makes of its throw;
\* fault is the message of the failure that ended it, if one did
Finish(task, outcome, fault) ==
    [task EXCEPT !.spc = "done", !.res = ToolBoundary(outcome), !.user = NoUser,
                 !.id = 0, !.content = <<>>, !.fault = fault]

\* a tool callback up to its first await.  create-random-user sends its
\* sampling request at once; a client without a handler rejects it.
NewTask(c, registered) ==
    LET task == [tool |-> c.tool, args |-> c.args, spc |-> "new", res |-> NoResult,
                 user |-> NoUser, id |-> 0, content |-> <<>>, fault |-> <<>>]
    IN  CASE c.tool = "get-coordinates" -> [task EXCEPT !.spc = "fetch"]
          [] c.tool = "create-user" ->
                [task EXCEPT !.spc = "import", !.user = UserArg(c.args[1], c.args[2])]
          [] OTHER ->
                IF registered THEN [task EXCEPT !.spc = "sampling"]
                ELSE Finish(task, Threw(MethodNotFound), MethodNotFound)

CatchText(tool, errorMessage) ==
    IF tool = "create-user" THEN CreateUserCatch(errorMessage)
    ELSE RandomUserCatch(errorMessage)

OkText(task) ==
    IF task.tool = "create-user" THEN CreateUserOk(task.id, task.user)
    ELSE RandomUserOk(task.id)

\* create-random-user after its await of the sampling request
AfterSampling(task, res) ==
    IF res.kind = "error" THEN Finish(task, Threw(InternalError), InternalError)
    ELSE IF res.type # "text" THEN Finish(task, Returned(RandomUserNotText), <<>>)
    ELSE IF ~JsonParses(StripFence(res.text))
         THEN Finish(task, Returned(RandomUserCatch(JsonSyntaxError)), JsonSyntaxError)
    ELSE [task EXCEPT !.spc = "import", !.user = JsonValue(StripFence(res.text)[1])]

Creates(plan) == Len(SelectSeq(plan, LAMBDA c : c.tool # "get-coordinates"))

\* the store has room for the users the calls of plan may create
Room(plan) == Len(users) + Creates(plan) <= MaxUsers

\* the calls of a branch go out: each call starts its task, and each
\* create-random-user task starts a sampling handler on the client
StartCalls(plan) ==
    /\ calls' = [i \in 1..Len(plan) |-> NewTask(plan[i], handlers > 0)]
    /\ bridge' = [i \in {j \in 1..Len(plan) : plan[j].tool = "create-random-user"
                                               /\ handlers > 0}
                    |-> Advance(NewHandler(RandomUserRequest))]
    /\ sampled' = IF handlers = 0 /\ \E j \in 1..Len(plan) : plan[j].tool = "create-random-user"
                  THEN [sampled EXCEPT !.registered = FALSE]
                  ELSE sampled

\* get-coordinates: the fetch ends
TaskFetch(i, o) ==
    /\ Alive
    /\ i \in DOMAIN calls
    /\ calls[i].spc = "fetch"
    /\ calls' = [calls EXCEPT ![i] = Finish(@, GetCoordinates(calls[i].args[1], o),
                                             IF o = "throws" THEN FetchFailed ELSE <<>>)]
    /\ UNCHANGED <<snapshot, created, pc, pending, listCalls, handlers, actions, cur, bridge, loaded, users,
                   usersFile, shown, stats, sampled>>

\* createUser: the import resolves; the id is taken, the record pushed and
\* writeFile called with the array as it is now
TaskImport(i) ==
    /\ Alive
    /\ i \in DOMAIN calls
    /\ calls[i].spc = "import"
    /\ users' = CreateUserPush(users, calls[i].user)
    /\ loaded' = TRUE
    /\ calls' = [calls EXCEPT ![i].spc = "write", ![i].id = CreateUserId(users),
                              ![i].content = users']
    /\ UNCHANGED <<snapshot, created, pc, pending, listCalls, handlers, actions, cur, bridge, usersFile,
                   shown, stats, sampled>>

\* createUser: the first import of users.json fails
TaskImportFail(i) ==
    /\ Alive
    /\ i \in DOMAIN calls
    /\ calls[i].spc = "import"
    /\ ~loaded
    /\ calls' = [calls EXCEPT ![i] =
                    Finish(@, Returned(CatchText(calls[i].tool, ModuleNotFound)), ModuleNotFound)]
    /\ UNCHANGED <<snapshot, created, pc, pending, listCalls, handlers, actions, cur, bridge, loaded, users,
                   usersFile, shown, stats, sampled>>

\* what a call that created a user told its caller: the id createUser
\* returned, for the user it was given, pushed onto a store of n users
Report(task) ==
    [tool |-> task.tool, id |-> task.id, n |-> Len(task.content) - 1,
     name |-> task.user.name, email |-> task.user.email]

\* createUser: writeFile ends and the handler returns the id
TaskWrite(i) ==
    /\ Alive
    /\ i \in DOMAIN calls
    /\ calls[i].spc = "write"
    /\ usersFile' = calls[i].content
    /\ calls' = [calls EXCEPT ![i] = Finish(@, Returned(OkText(calls[i])), <<>>)]
    /\ created' = Append(created, Report(calls[i]))
    /\ UNCHANGED <<snapshot, pc, pending, listCalls, handlers, actions, cur, bridge, loaded, users,
                   shown, stats, sampled>>

\* createUser: writeFile fails
TaskWriteFail(i) ==
    /\ Alive
    /\ i \in DOMAIN calls
    /\ calls[i].spc = "write"
    /\ calls' = [calls EXCEPT ![i] =
                    Finish(@, Returned(CatchText(calls[i].tool, NoSpace)), NoSpace)]
    /\ UNCHANGED <<snapshot, created, pc, pending, listCalls, handlers, actions, cur, bridge, loaded, users,
                   usersFile, shown, stats, sampled>>

(***************************************************************************)
(* The sampling handler (the Sampling Bridge).                             *)
(***************************************************************************)
Without(f, i) == [j \in DOMAIN f \ {i} |-> f[j]]

Sampled(h) ==
    [seen |-> TRUE, registered |-> sampled.registered, msgs |-> h.msgs,
     maxTokens |-> h.maxTokens, outs |-> h.outs, asked |-> h.asked, made |-> h.made,
     response |-> HandlerResponse(h)]

\* as a handler whose return value never reaches the server would
ContinueUndelivered(i, h) ==
    IF h.st \in {"done", "failed"}
    THEN /\ bridge' = Without(bridge, i)
         /\ sampled' = Sampled(h)
         /\ UNCHANGED calls
    ELSE /\ bridge' = (i :> h) @@ bridge
         /\ UNCHANGED <<calls, sampled>>

\* handler i went on to h: while it waits it stays; once it has returned or
\* thrown, its answer reaches the one that asked, a create-random-user task
\* or the peer
Continue(i, h) ==
    IF h.st \in {"done", "failed"}
    THEN /\ bridge' = Without(bridge, i)
         /\ calls' = IF i \in DOMAIN calls
                      THEN [calls EXCEPT ![i] = AfterSampling(@, HandlerResponse(h))]
                      ELSE calls
         /\ sampled' = Sampled(h)
    ELSE /\ bridge' = (i :> h) @@ bridge
         /\ UNCHANGED <<calls, sampled>>

\* the answer the operator gave for message idx, and whether a generation
\* call went out on it
Answered(h, idx, run) ==
    [h EXCEPT !.asked = @ \cup {[idx |-> idx, run |-> run]},
              !.made = IF h.st = "gen" THEN @ + 1 ELSE @]

\* the operator answers the handler's confirm prompt
BridgeConfirm(i, run) ==
    /\ Alive
    /\ i \in DOMAIN bridge
    /\ bridge[i].st = "confirm"
    /\ Continue(i, Answered(OnConfirm(bridge[i], run), bridge[i].idx, run))
    /\ stats' = [stats EXCEPT !.bridge = @ + (IF run THEN 1 ELSE 0)
                                           - (IF OnConfirm(bridge[i], run).st = "gen" THEN 1 ELSE 0)]
    /\ UNCHANGED <<snapshot, created, pc, pending, listCalls, handlers, actions, cur, loaded, users,
                   usersFile, shown>>

\* the model answers the handler's generateText
BridgeModelReturn(i, text) ==
    /\ Alive
    /\ i \in DOMAIN bridge
    /\ bridge[i].st = "gen"
    /\ Continue(i, OnModelText(bridge[i], text))
    /\ UNCHANGED <<snapshot, created, pc, pending, listCalls, handlers, actions, cur, loaded, users,
                   usersFile, shown, stats>>

\* the handler's generateText fails
BridgeModelFail(i) ==
    /\ Alive
    /\ i \in DOMAIN bridge
    /\ bridge[i].st = "gen"
    /\ Continue(i, OnModelFail(bridge[i]))
    /\ UNCHANGED <<snapshot, created, pc, pending, listCalls, handlers, actions, cur, loaded, users,
                   usersFile, shown, stats>>

(***************************************************************************)
(* The Tools branch: handleTool.                                           *)
(***************************************************************************)
\* as a try/catch around the switch that logs and goes on would
CrashCaught == pc' = "menu"

\* a rejection nothing catches leaves main: main() rejects
Crash == pc' = "crashed"

AllDone == \A i \in DOMAIN calls : calls[i].spc = "done"

\* the operator selects a tool; a tool without parameters is called at once
SelectTool(t) ==
    /\ pc = "tool_select"
    /\ t \in snapshot.tools
    /\ Room(<<ToolCall(t)>>)
    /\ cur' = [cur EXCEPT !.tool = t]
    /\ IF ToolParams(t) = <<>>
       THEN pc' = "tool_call" /\ StartCalls(<<[tool |-> t, args |-> <<>>]>>)
       ELSE pc' = "tool_input" /\ UNCHANGED <<calls, bridge, sampled>>
    /\ UNCHANGED <<snapshot, created, pending, listCalls, handlers, actions, loaded, users, usersFile,
                   shown, stats>>

\* the operator enters the next argument; after the last, callTool
ToolInput(v) ==
    /\ pc = "tool_input"
    /\ v \in InputValues(ToolParams(cur.tool)[Len(cur.args) + 1])
    /\ cur' = [cur EXCEPT !.args = Append(@, v)]
    /\ IF Len(cur'.args) = Len(ToolParams(cur.tool))
       THEN pc' = "tool_call" /\ StartCalls(<<[tool |-> cur.tool, args |-> cur'.args]>>)
       ELSE pc' = "tool_input" /\ UNCHANGED <<calls, bridge, sampled>>
    /\ UNCHANGED <<snapshot, created, pending, listCalls, handlers, actions, loaded, users, usersFile,
                   shown, stats>>

Line(what, text) == [what |-> what, text |-> text]

\* callTool resolves and the first content part's text is logged
ToolReturn ==
    /\ pc = "tool_call"
    /\ AllDone
    /\ IF calls[1].res.kind = "error"
       THEN Crash /\ UNCHANGED shown /\ cur' = [cur EXCEPT !.error = calls[1].res.text]
       ELSE /\ pc' = "menu"
            /\ shown' = Append(shown, Line("tool", calls[1].res.text))
            /\ UNCHANGED cur
    /\ calls' = <<>>
    /\ UNCHANGED <<snapshot, created, pending, listCalls, handlers, actions, bridge, loaded,
                   users, usersFile, stats, sampled>>

(***************************************************************************)
(* The Query branch: handleQuery.                                          *)
(***************************************************************************)
\* the operator enters the query and generateText is called
QueryInput(q) ==
    /\ pc = "query_input"
    /\ pc' = "query_gen"
    /\ UNCHANGED <<snapshot, created, pending, listCalls, handlers, actions, cur, calls, bridge, loaded,
                   users, usersFile, shown, stats, sampled>>

\* the model answers with its text and the tool calls it asks for, which
\* the executors forward to callTool together
QueryModel(text, plan) ==
    /\ pc = "query_gen"
    /\ \A k \in 1..Len(plan) : plan[k].tool \in snapshot.tools
    /\ Room(plan)
    /\ pc' = "query_tools"
    /\ cur' = [cur EXCEPT !.text = text]
    /\ StartCalls(plan)
    /\ UNCHANGED <<snapshot, created, pending, listCalls, handlers, actions, loaded, users, usersFile,
                   shown, stats>>

\* the generation call fails
QueryModelFail ==
    /\ pc = "query_gen"
    /\ Crash
    /\ cur' = [cur EXCEPT !.error = GenerationFailed]
    /\ UNCHANGED <<snapshot, created, pending, listCalls, handlers, actions, calls, bridge,
                   loaded, users, usersFile, shown, stats, sampled>>

ToolResults == [i \in DOMAIN calls |-> calls[i].res]

\* every tool call has resolved: generateText returns and the answer is logged
QueryFinish ==
    /\ pc = "query_tools"
    /\ AllDone
    /\ IF \E i \in DOMAIN calls : calls[i].res.kind = "error"
       THEN Crash /\ UNCHANGED shown
       ELSE pc' = "menu" /\ shown' = Append(shown, Line("query", QueryAnswer(cur.text, ToolResults)))
    /\ cur' = [cur EXCEPT !.results = ToolResults,
                          !.error = IF \E i \in DOMAIN calls : calls[i].res.kind = "error"
                                    THEN InternalError ELSE <<>>]
    /\ calls' = <<>>
    /\ UNCHANGED <<snapshot, created, pending, listCalls, handlers, actions, bridge, loaded, users,
                   usersFile, stats, sampled>>

(***************************************************************************)
(* The Resources branch: handleResource.                                   *)
(***************************************************************************)
ResourceChoices == {UsersAllUri, UserDetailsTemplate}

\* the operator selects a resource or a template
SelectResource(u) ==
    /\ pc = "res_select"
    /\ u \in snapshot.resources \cup snapshot.resourceTemplates
    /\ cur' = [cur EXCEPT !.uri = u, !.params = ParamMatches(u), !.idx = 1]
    /\ pc' = IF ParamMatches(u) = <<>> THEN "res_read" ELSE "res_input"
    /\ UNCHANGED <<snapshot, created, pending, listCalls, handlers, actions, calls, bridge, loaded, users,
                   usersFile, shown, stats, sampled>>

\* the operator enters the value of the next placeholder
ResourceInput(v) ==
    /\ pc = "res_input"
    /\ cur' = [cur EXCEPT !.uri = ReplaceFirst(@, cur.params[cur.idx], v), !.idx = @ + 1,
                          !.args = Append(@, v)]
    /\ pc' = IF cur.idx = Len(cur.params) THEN "res_read" ELSE "res_input"
    /\ UNCHANGED <<snapshot, created, pending, listCalls, handlers, actions, calls, bridge, loaded, users,
                   usersFile, shown, stats, sampled>>

\* readResource is answered: the body is parsed and logged; an error ends main
ResourceReturn ==
    /\ pc = "res_read"
    /\ loaded' = TRUE
    /\ cur' = [cur EXCEPT !.content = ReadResource(users, cur.uri),
                          !.error = IF ReadResource(users, cur.uri).kind = "error"
                                    THEN ResourceNotFound ELSE <<>>]
    /\ IF cur'.content.kind = "error"
       THEN Crash /\ UNCHANGED shown
       ELSE pc' = "menu" /\ shown' = Append(shown, Line("resource", <<cur'.content.body.shape>>))
    /\ UNCHANGED <<snapshot, created, pending, listCalls, handlers, actions, calls, bridge, users, usersFile,
                   stats, sampled>>

\* the server's first import of users.json fails: readResource fails
ResourceImportFail ==
    /\ pc = "res_read"
    /\ ~loaded
    /\ (cur.uri = UsersAllUri \/ MatchesTemplate(cur.uri))
    /\ cur' = [cur EXCEPT !.content = ResourceError, !.error = ModuleNotFound]
    /\ Crash
    /\ UNCHANGED <<snapshot, created, pending, listCalls, handlers, actions, calls, bridge, loaded, users,
                   usersFile, shown, stats, sampled>>

(***************************************************************************)
(* The Prompts branch: handlePrompt.                                       *)
(***************************************************************************)
\* the loop over the prompt's messages from message idx on, up to the next
\* confirm prompt or to the end
RECURSIVE PromptLoop(_, _)
PromptLoop(c, sh) ==
    IF c.idx > Len(c.msgs) THEN [cur |-> c, shown |-> sh, pc |-> "menu"]
    ELSE IF NeedsGate(c.msgs[c.idx]) THEN [cur |-> c, shown |-> sh, pc |-> "prompt_confirm"]
    ELSE PromptLoop([c EXCEPT !.outs = Append(@, Out("unsupported", UnsupportedMarker(c.msgs[c.idx].type))),
                              !.idx = @ + 1],
                    Append(sh, Line("prompt", UnsupportedMarker(c.msgs[c.idx].type))))

SelectPrompt(p) ==
    /\ pc = "prompt_select"
    /\ p \in snapshot.prompts
    /\ cur' = [cur EXCEPT !.tool = p]
    /\ pc' = "prompt_input"
    /\ UNCHANGED <<snapshot, created, pending, listCalls, handlers, actions, calls, bridge, loaded, users,
                   usersFile, shown, stats, sampled>>

\* the operator enters the next argument; after the last, getPrompt
PromptInput(v) ==
    /\ pc = "prompt_input"
    /\ v \in InputValues(PromptArgs(cur.tool)[Len(cur.args) + 1])
    /\ cur' = [cur EXCEPT !.args = Append(@, v)]
    /\ pc' = IF Len(cur'.args) = Len(PromptArgs(cur.tool)) THEN "prompt_get" ELSE "prompt_input"
    /\ UNCHANGED <<snapshot, created, pending, listCalls, handlers, actions, calls, bridge, loaded, users,
                   usersFile, shown, stats, sampled>>

\* getPrompt resolves with messages and the loop over them starts
GotPrompt(messages) ==
    LET l == PromptLoop([cur EXCEPT !.msgs = messages, !.idx = 1], shown)
    IN  /\ pc = "prompt_get"
        /\ cur' = l.cur
        /\ shown' = l.shown
        /\ pc' = l.pc
        /\ UNCHANGED <<snapshot, created, pending, listCalls, handlers, actions, calls, bridge, loaded,
                       users, usersFile, stats, sampled>>

\* the server answers getPrompt for generate-fake-user
PromptReturn == GotPrompt(FakeUserPrompt(cur.args[1]))

\* the operator answers the confirm prompt of the message
PromptConfirm(run) ==
    LET o == ConfirmOutcome(cur.msgs[cur.idx], run)
        l == PromptLoop([cur EXCEPT !.outs = Append(@, Out("cancelled", o.text)),
                                    !.idx = @ + 1],
                        Append(shown, Line("prompt", o.text)))
        a == [idx |-> cur.idx, run |-> run]
    IN  /\ pc = "prompt_confirm"
        /\ IF o.calls
           THEN /\ pc' = "prompt_gen"
                /\ cur' = [cur EXCEPT !.call = o.call, !.asked = @ \cup {a}]
                /\ UNCHANGED shown
           ELSE /\ pc' = l.pc
                /\ cur' = [l.cur EXCEPT !.asked = @ \cup {a}]
                /\ shown' = l.shown
        /\ stats' = [stats EXCEPT !.prompt = @ + (IF run THEN 1 ELSE 0)
                                               - (IF pc' = "prompt_gen" THEN 1 ELSE 0)]
        /\ UNCHANGED <<snapshot, created, pending, listCalls, handlers, actions, calls, bridge, loaded,
                       users, usersFile, sampled>>

\* the model answers: the text is logged and the loop goes on
PromptModelReturn(text) ==
    LET l == PromptLoop([cur EXCEPT !.outs = Append(@, Out("model", text)),
                                    !.call = NoModelCall,
                                    !.idx = @ + 1],
                        Append(shown, Line("prompt", text)))
    IN  /\ pc = "prompt_gen"
        /\ pc' = l.pc
        /\ cur' = l.cur
        /\ shown' = l.shown
        /\ UNCHANGED <<snapshot, created, pending, listCalls, handlers, actions, calls, bridge, loaded,
                       users, usersFile, stats, sampled>>

\* the generation call fails: nothing catches it and main ends
PromptModelFail ==
    /\ pc = "prompt_gen"
    /\ Crash
    /\ cur' = [cur EXCEPT !.error = GenerationFailed]
    /\ UNCHANGED <<snapshot, created, pending, listCalls, handlers, actions, calls, bridge,
                   loaded, users, usersFile, shown, stats, sampled>>

Next ==
    \/ Connect
    \/ \E k \in Lists : ListReturn(k)
    \/ JoinAndRegister
    \/ \E o \in MenuChoices : SelectOption(o)
    \/ \E t \in ToolNames : SelectTool(t)
    \/ \E v \in InputValues("city") \cup InputValues("name") \cup InputValues("email") : ToolInput(v)
    \/ ToolReturn
    \/ \E q \in Queries : QueryInput(q)
    \/ \E text \in FinalTexts, plan \in ToolPlans : QueryModel(text, plan)
    \/ QueryModelFail
    \/ QueryFinish
    \/ \E u \in ResourceChoices : SelectResource(u)
    \/ \E v \in InputValues("id") : ResourceInput(v)
    \/ ResourceReturn
    \/ ResourceImportFail
    \/ \E p \in PromptNames : SelectPrompt(p)
    \/ \E v \in InputValues("name") : PromptInput(v)
    \/ PromptReturn
    \/ \E run \in BOOLEAN : PromptConfirm(run)
    \/ \E text \in ModelTexts : PromptModelReturn(text)
    \/ PromptModelFail
    \/ \E i \in 1..MaxToolCalls, o \in FetchOutcomes : TaskFetch(i, o)
    \/ \E i \in 1..MaxToolCalls : TaskImport(i)
    \/ \E i \in 1..MaxToolCalls : TaskImportFail(i)
    \/ \E i \in 1..MaxToolCalls : TaskWrite(i)
    \/ \E i \in 1..MaxToolCalls : TaskWriteFail(i)
    \/ \E i \in 1..MaxToolCalls, run \in BOOLEAN : BridgeConfirm(i, run)
    \/ \E i \in 1..MaxToolCalls, text \in ModelTexts : BridgeModelReturn(i, text)
    \/ \E i \in 1..MaxToolCalls : BridgeModelFail(i)

Spec == Init /\ [][Next]_vars

\* Both event loops keep running: the operator answers each confirm prompt
\* of a handler, each generation call of a handler ends, each import, fetch
\* and writeFile of the server ends, and a resolved callTool resumes main.
Progress ==
    /\ WF_vars(\E i \in 1..MaxToolCalls, run \in BOOLEAN : BridgeConfirm(i, run))
    /\ WF_vars(\E i \in 1..MaxToolCalls :
                  (\E text \in ModelTexts : BridgeModelReturn(i, text)) \/ BridgeModelFail(i))
    /\ WF_vars(\E i \in 1..MaxToolCalls :
                  \/ \E o \in FetchOutcomes : TaskFetch(i, o)
                  \/ TaskImport(i) \/ TaskImportFail(i)
                  \/ TaskWrite(i) \/ TaskWriteFail(i))
    /\ WF_vars(ToolReturn)

\* the menu, with only the Tools branch and Exit taken
NextTools ==
    \/ Connect
    \/ \E k \in Lists : ListReturn(k)
    \/ JoinAndRegister
    \/ \E o \in {"Tools", "Exit"} : SelectOption(o)
    \/ \E t \in ToolNames : SelectTool(t)
    \/ \E v \in InputValues("city") \cup InputValues("name") \cup InputValues("email") : ToolInput(v)
    \/ ToolReturn
    \/ \E i \in 1..MaxToolCalls, o \in FetchOutcomes : TaskFetch(i, o)
    \/ \E i \in 1..MaxToolCalls : TaskImport(i)
    \/ \E i \in 1..MaxToolCalls : TaskImportFail(i)
    \/ \E i \in 1..MaxToolCalls : TaskWrite(i)
    \/ \E i \in 1..MaxToolCalls : TaskWriteFail(i)
    \/ \E i \in 1..MaxToolCalls, run \in BOOLEAN : BridgeConfirm(i, run)
    \/ \E i \in 1..MaxToolCalls, text \in ModelTexts : BridgeModelReturn(i, text)
    \/ \E i \in 1..MaxToolCalls : BridgeModelFail(i)

SpecLive == Init /\ [][NextTools]_vars /\ Progress


(***************************************************************************)
(* The client against any peer: sampling requests and prompts with any     *)
(* messages the protocol allows, not only those of this server.            *)
(***************************************************************************)
PeerMessageKinds == {TextMessage(<<"Say hello.">>), OtherMessage("image")}
PeerMessages == SeqsUpTo(PeerMessageKinds, MaxMsgs)
PeerTokenLimits == {256, SamplingMaxTokens}

\* a sampling request arrives and the registered handler starts on it
PeerRequest(messages, maxTokens) ==
    /\ Alive
    /\ handlers > 0
    /\ 0 \notin DOMAIN bridge
    /\ ~sampled.seen
    /\ Continue(0, Advance(NewHandler([messages |-> messages, maxTokens |-> maxTokens])))
    /\ UNCHANGED <<snapshot, created, pc, pending, listCalls, handlers, actions, cur, loaded, users,
                   usersFile, shown, stats>>

\* the peer has the answer to its request
PeerReceive ==
    /\ Alive
    /\ sampled.seen
    /\ sampled' = NoSampled
    /\ UNCHANGED <<snapshot, created, pc, pending, listCalls, handlers, actions, cur, calls, bridge, loaded,
                   users, usersFile, shown, stats>>

\* the peer answers getPrompt
PeerPromptReturn(messages) == GotPrompt(messages)

\* the menu, with only the Prompts branch and Exit taken
NextBridge ==
    \/ Connect
    \/ \E k \in Lists : ListReturn(k)
    \/ JoinAndRegister
    \/ \E o \in {"Prompts", "Exit"} : SelectOption(o)
    \/ \E p \in PromptNames : SelectPrompt(p)
    \/ \E v \in InputValues("name") : PromptInput(v)
    \/ \E m \in PeerMessages : PeerPromptReturn(m)
    \/ \E run \in BOOLEAN : PromptConfirm(run)
    \/ \E text \in ModelTexts : PromptModelReturn(text)
    \/ PromptModelFail
    \/ \E m \in PeerMessages, n \in PeerTokenLimits : PeerRequest(m, n)
    \/ \E run \in BOOLEAN : BridgeConfirm(0, run)
    \/ \E text \in ModelTexts : BridgeModelReturn(0, text)
    \/ BridgeModelFail(0)
    \/ PeerReceive

SpecBridge == Init /\ [][NextBridge]_vars


(***************************************************************************)
(* Properties.                                                             *)
(***************************************************************************)
EndsWith(s, t) == Len(s) >= Len(t) /\ SubSeq(s, Len(s) - Len(t) + 1, Len(s)) = t
StartsWith(s, t) == Len(s) >= Len(t) /\ SubSeq(s, 1, Len(t)) = t
Last(q) == q[Len(q)]

\* C1: once main is past discovery (at the menu or in any branch), each of
\* the four list calls has been issued and answered, in whatever order the
\* answers came.
C1_DiscoveryJoinedBeforeMenu ==
    pc \notin {"start", "discover"} =>
        /\ pending = {}
        /\ \A k \in Lists : listCalls[k] >= 1

C1_Witness == pc = "query_input" /\ pending = {} /\ \A k \in Lists : listCalls[k] = 1

\* C2: the handler is registered once, before the menu is first shown; a
\* sampling request exists only for a create-random-user call, and each one
\* finds the handler registered and is taken up by it.
C2_HandlerRegisteredBeforeSampling ==
    /\ pc \in {"start", "discover"} => (handlers = 0 /\ DOMAIN bridge = {})
    /\ pc \notin {"start", "discover"} => handlers = 1
    /\ sampled.registered
    /\ \A i \in DOMAIN bridge : i \in DOMAIN calls /\ calls[i].tool = "create-random-user"
    /\ \A i \in DOMAIN calls : calls[i].spc = "sampling" <=> i \in DOMAIN bridge

C2_Witness ==
    \E i \in DOMAIN bridge : bridge[i].st = "confirm" /\ calls[i].spc = "sampling" /\ handlers = 1

\* what became of messages 1..Len(outs) agrees with their types and with the
\* operator's answers: a text message went to the model only on a yes, gave
\* the cancelled marker on a no; any other message gave the unsupported marker
\* unasked
Gated(msgs, outs, asked) ==
    \A k \in 1..Len(outs) :
        IF msgs[k].type = "text"
        THEN \/ /\ outs[k].how \in {"model", "failed"}
                /\ [idx |-> k, run |-> TRUE] \in asked
                /\ [idx |-> k, run |-> FALSE] \notin asked
             \/ /\ outs[k] = Out("cancelled", <<"Prompt execution cancelled.">>)
                /\ [idx |-> k, run |-> FALSE] \in asked
                /\ [idx |-> k, run |-> TRUE] \notin asked
        ELSE /\ outs[k] = Out("unsupported", <<"Unsupported content type: ", msgs[k].type>>)
             /\ \A a \in asked : a.idx # k

Confirmed(asked) == Cardinality({a \in asked : a.run})

\* C3: in the handler and in the Prompts branch a generation call is made for
\* a message only if it is text and the operator said yes to it; a no gives
\* the cancelled marker, a message that is not text the unsupported marker
\* with no prompt; the handler's calls never outnumber the confirmations.
C3_ModelCallOnlyOnConfirmedText ==
    /\ \A i \in DOMAIN bridge :
          /\ Gated(bridge[i].msgs, bridge[i].outs, bridge[i].asked)
          /\ bridge[i].made <= Confirmed(bridge[i].asked)
          /\ bridge[i].st = "gen" =>
                /\ bridge[i].msgs[bridge[i].idx].type = "text"
                /\ [idx |-> bridge[i].idx, run |-> TRUE] \in bridge[i].asked
    /\ sampled.seen =>
          /\ Gated(sampled.msgs, sampled.outs, sampled.asked)
          /\ sampled.made <= Confirmed(sampled.asked)
    /\ Gated(cur.msgs, cur.outs, cur.asked)
    /\ pc = "prompt_gen" =>
          /\ cur.msgs[cur.idx].type = "text"
          /\ [idx |-> cur.idx, run |-> TRUE] \in cur.asked
    /\ stats.bridge >= 0
    /\ stats.prompt >= 0

C3_Witness ==
    /\ sampled.seen
    /\ Len(sampled.outs) = 2
    /\ sampled.outs[1].how = "cancelled"
    /\ sampled.outs[2].how = "unsupported"
    /\ sampled.made = 0
    /\ pc = "prompt_gen"

\* C4: the answer handleQuery logs is the model's text when it is not empty;
\* else the text of the first tool call's result when a tool was called, and
\* then it is not empty; else "No response generated."
C4_AnswerPriority ==
    (pc = "menu" /\ shown # <<>> /\ Last(shown).what = "query") =>
        LET answer == Last(shown).text
        IN  /\ cur.text # <<>> => answer = cur.text
            /\ (cur.text = <<>> /\ cur.results # <<>>) =>
                  (answer = cur.results[1].text /\ answer # <<>>)
            /\ (cur.text = <<>> /\ cur.results = <<>>) =>
                  answer = <<"No response generated.">>

C4_Witness ==
    /\ pc = "menu"
    /\ shown # <<>>
    /\ Last(shown).what = "query"
    /\ cur.text = <<>>
    /\ Len(cur.results) = 2
    /\ cur.results[1].text # cur.results[2].text
    /\ Last(shown).text = cur.results[1].text

\* C5: every tool call that ends, ends with a text result, also when its
\* handler met a failure (fetch, import, writeFile, a rejected sampling
\* request, JSON that does not parse), and then the text ends with the
\* failure's message; none ends with a protocol error.
C5_ToolFailuresAreTextResults ==
    \A i \in DOMAIN calls :
        calls[i].spc = "done" =>
            /\ calls[i].res.kind = "result"
            /\ calls[i].res.ctype = "text"
            /\ calls[i].res.text # <<>>
            /\ calls[i].fault # <<>> => EndsWith(calls[i].res.text, calls[i].fault)

C5_Witness ==
    \E i \in DOMAIN calls :
        /\ calls[i].spc = "done"
        /\ calls[i].tool = "create-random-user"
        /\ calls[i].fault = <<"MCP error -32603: Internal error">>
        /\ calls[i].res.kind = "result"

RECURSIVE Markers(_)
Markers(n) ==
    IF n = 1 THEN <<"Prompt execution cancelled.">>
    ELSE <<"Prompt execution cancelled.", "\n">> \o Markers(n - 1)

AllDenied(r) ==
    /\ r.seen
    /\ r.msgs # <<>>
    /\ \A k \in 1..Len(r.msgs) :
          r.msgs[k].type = "text" /\ [idx |-> k, run |-> FALSE] \in r.asked

\* C6: a sampling request whose messages are all text and all denied is
\* answered with the cancelled markers, one per message, joined by single
\* newlines, and no generation call is made for it.
C6_AllDeniedGivesMarkers ==
    AllDenied(sampled) =>
        /\ sampled.response.kind = "result"
        /\ sampled.response.text = Markers(Len(sampled.msgs))
        /\ sampled.made = 0

C6_Witness == AllDenied(sampled) /\ Len(sampled.msgs) = 2

RECURSIVE Contributions(_)
Contributions(outs) ==
    IF outs = <<>> THEN <<>>
    ELSE IF Head(outs).text = <<>> THEN Contributions(Tail(outs))
    ELSE IF Contributions(Tail(outs)) = <<>> THEN Head(outs).text
    ELSE Head(outs).text \o <<"\n">> \o Contributions(Tail(outs))

\* C7: the handler takes the messages one at a time in their order, and the
\* response text holds their contributions in that order; for a message that
\* is not text followed by a confirmed text message, the unsupported marker
\* comes first and the model's text after it.
C7_ContributionsInMessageOrder ==
    /\ \A i \in DOMAIN bridge :
          /\ Len(bridge[i].outs) = bridge[i].idx - 1
          /\ bridge[i].idx <= Len(bridge[i].msgs)
    /\ (sampled.seen /\ sampled.response.kind = "result") =>
          /\ Len(sampled.outs) = Len(sampled.msgs)
          /\ sampled.response.text = Contributions(sampled.outs)
          /\ (/\ Len(sampled.msgs) = 2
              /\ sampled.msgs[1].type # "text"
              /\ sampled.outs[2].how = "model") =>
                /\ StartsWith(sampled.response.text,
                              <<"Unsupported content type: ", sampled.msgs[1].type>>)
                /\ EndsWith(sampled.response.text, sampled.outs[2].text)
                /\ Len(sampled.response.text) >= 2 + Len(sampled.outs[2].text)

C7_Witness ==
    /\ sampled.seen
    /\ Len(sampled.msgs) = 2
    /\ sampled.msgs[1].type = "image"
    /\ sampled.outs[2].how = "model"
    /\ sampled.outs[2].text # <<>>
    /\ sampled.response.text =
          <<"Unsupported content type: ", "image", "\n">> \o sampled.outs[2].text

\* C8: every generation call of the handler has the message's text as its
\* prompt and a token limit no greater than the request's maxTokens.
C8_CallBoundedByRequest ==
    \A i \in DOMAIN bridge :
        bridge[i].st = "gen" =>
            /\ bridge[i].call.prompt = bridge[i].msgs[bridge[i].idx].text
            /\ bridge[i].call.maxTokens <= bridge[i].maxTokens

\* C9: a generation call that fails does not end the handler: the request is
\* answered with a result, every message has its contribution (a marker for
\* the one that failed), and main goes on.
C9_ModelFailureContained ==
    sampled.seen =>
        /\ sampled.response.kind = "result"
        /\ Len(sampled.outs) = Len(sampled.msgs)
        /\ \A k \in 1..Len(sampled.outs) :
              sampled.outs[k].how = "failed" => sampled.outs[k].text # <<>>
        /\ pc # "crashed"

\* C10: user-details read with an id that is not the id of a stored user
\* answers with the application/json body { "error": "User not found" }.
C10_UnknownIdIsNotFound ==
    (/\ cur.content.kind = "result"
     /\ MatchesTemplate(cur.uri)
     /\ \A k \in 1..Len(users) : NumToStr(users[k].id) # TemplateId(cur.uri)) =>
        cur.content = [kind |-> "result", mimeType |-> "application/json",
                       body |-> [shape |-> "error", error |-> <<"User not found">>,
                                 users |-> <<>>]]

Reports(tool) == SelectSeq(created, LAMBDA r : r.tool = tool)

\* C11: a create-user call that finds n users in the store reports id n + 1
\* and the store then holds the record {id: n + 1, name, email} at that
\* place; every read of users://all answered afterwards lists that record.
C11_CreateUserIdAndListing ==
    /\ \A j \in 1..Len(Reports("create-user")) :
          LET r == Reports("create-user")[j]
          IN  /\ r.id = r.n + 1
              /\ Len(users) >= r.n + 1
              /\ users[r.n + 1] = [id |-> r.n + 1, name |-> r.name, email |-> r.email]
    /\ (pc = "menu" /\ cur.uri = <<"users://all">> /\ cur.content.kind = "result") =>
          /\ cur.content.mimeType = "application/json"
          /\ cur.content.body.shape = "users"
          /\ \A j \in 1..Len(Reports("create-user")) :
                LET r == Reports("create-user")[j]
                IN  \E k \in 1..Len(cur.content.body.users) :
                        cur.content.body.users[k] =
                            [id |-> r.n + 1, name |-> r.name, email |-> r.email]

C11_Witness ==
    /\ pc = "menu"
    /\ cur.uri = <<"users://all">>
    /\ cur.content.kind = "result"
    /\ Len(created) = 1
    /\ created[1].tool = "create-user"
    /\ created[1].n = 1
    /\ cur.content.body.users[2] = [id |-> 2, name |-> <<"Ada">>, email |-> <<"ada@example.com">>]

\* an entered value made of letters and digits, at least one
PlainValue(v) == v # <<>> /\ \A i \in 1..Len(v) : v[i] \in Digits \cup {"a"}

C13_SamplingDuringCallCompletes ==
    (pc = "tool_call" /\ cur.tool = "create-random-user")
        ~> (pc = "menu" /\ cur.tool = "create-random-user" /\ sampled.seen /\ calls = <<>>)

C13_Witness ==
    /\ pc = "menu"
    /\ cur.tool = "create-random-user"
    /\ sampled.seen
    /\ sampled.response.kind = "result"
    /\ shown # <<>>
    /\ Last(shown).what = "tool"
    /\ StartsWith(Last(shown).text, <<"Fake user created successfully: ">>)

\* where main is inside one of the four branches
InBranch(p) == p \notin {"start", "discover", "menu", "exited", "crashed"}

\* C14: a branch that ends without a failure ends at the menu, and a branch
\* ends nowhere but at the menu or in a failure; choosing Exit at the menu
\* ends the loop, which is left in no other way; after that nothing happens
\* any more: no call is outstanding, no handler runs, no step is taken.
C14_MenuLoopUntilExit ==
    [][ /\ (InBranch(pc) /\ ~InBranch(pc')) => pc' \in {"menu", "crashed"}
        /\ (InBranch(pc) /\ ~InBranch(pc') /\ cur'.error = <<>>) => pc' = "menu"
        /\ (pc = "menu" /\ cur'.option = "Exit") => pc' = "exited"
        /\ (pc = "menu" /\ pc' # "menu") =>
              (InBranch(pc') \/ pc' = "exited") /\ (pc' = "exited" <=> cur'.option = "Exit")
        /\ pc' = "exited" =>
              (pc \in {"menu", "exited"} /\ calls' = <<>> /\ DOMAIN bridge' = {} /\ pending' = {})
        /\ pc = "exited" => UNCHANGED vars
      ]_vars

C14_Witness == pc = "exited" /\ actions = 2 /\ cur.option = "Exit" /\ Len(users) = 2

\* the newline-join of one contribution per message, empty ones included
RECURSIVE JoinedAll(_)
JoinedAll(outs) ==
    IF outs = <<>> THEN <<>>
    ELSE IF Len(outs) = 1 THEN outs[1].text
    ELSE outs[1].text \o <<"\n">> \o JoinedAll(Tail(outs))

\* C15: every sampling request is answered with one result whose stopReason
\* is endTurn and whose text is the newline-join of one contribution for
\* each message, in message order: the model's text, the cancelled marker or
\* the unsupported marker.
C15_OneContributionPerMessage ==
    sampled.seen =>
        /\ sampled.response.kind = "result"
        /\ sampled.response.stopReason = "endTurn"
        /\ Len(sampled.outs) = Len(sampled.msgs)
        /\ \A k \in 1..Len(sampled.outs) :
              sampled.outs[k].how \in {"model", "cancelled", "unsupported"}
        /\ sampled.response.text = JoinedAll(sampled.outs)

\* C16: a failure inside a branch (a generation call, readResource, callTool
\* or the parsing of a result) is caught nowhere: main has ended with it, and
\* from then on nothing happens, so the menu is not shown again.
C16_FailureEndsSession ==
    /\ [](cur.error # <<>> => pc = "crashed")
    /\ [][pc = "crashed" => (pc' = "crashed" /\ UNCHANGED vars)]_vars

C16_Witness ==
    /\ pc = "crashed"
    /\ cur.option = "Resources"
    /\ cur.error = <<"MCP error -32002: Resource not found">>
    /\ cur.uri = <<"users://", "/profile">>

\* a failure of each kind the model has: the generation call of handleQuery
\* and of handlePrompt, and the import behind readResource
C16_WitnessQuery == pc = "crashed" /\ cur.option = "Query" /\ cur.error # <<>>
C16_WitnessPrompt == pc = "crashed" /\ cur.option = "Prompts" /\ cur.error # <<>>

\* C17: each of the four list calls is issued once, during discovery, and
\* never again; from the first menu on main holds the four lists the server
\* answered, and no action changes them, a tool call that adds a user to the
\* store included.
C17_SnapshotFetchedOnce ==
    /\ [](/\ \A k \in Lists : listCalls[k] <= 1
          /\ pc \notin {"start", "discover"} =>
                /\ \A k \in Lists : listCalls[k] = 1
                /\ snapshot.tools = {"get-coordinates", "create-user", "create-random-user"}
                /\ snapshot.resources = {<<"users://all">>}
                /\ snapshot.resourceTemplates = {<<"users://", "{id}", "/profile">>}
                /\ snapshot.prompts = {"generate-fake-user"})
    /\ [][pc \notin {"start", "discover"} => UNCHANGED <<snapshot, listCalls, pending>>]_vars

C17_Witness ==
    /\ pc = "menu"
    /\ actions = 2
    /\ Len(created) = 2
    /\ \A k \in Lists : listCalls[k] = 1
    /\ snapshot.tools = {"get-coordinates", "create-user", "create-random-user"}

InFile(record) == \E k \in 1..Len(usersFile) : usersFile[k] = record

\* C18: createUser calls that overlap get distinct ids, and when every call
\* has completed, data/users.json holds the record of each call that
\* reported a created user.
C18_OverlappingCreatesPersist ==
    (\A i \in DOMAIN calls : calls[i].spc = "done") =>
        /\ \A j, k \in 1..Len(created) : j # k => created[j].id # created[k].id
        /\ \A j \in 1..Len(created) : InFile(users[created[j].n + 1])

\* C19: each record of the store has the id its creating call reported, the
\* size of the store before the call plus one, so the ids of the store are
\* pairwise distinct, also for a user whose parsed JSON has an id field.
C19_StoredIdIsReportedId ==
    /\ \A j \in 1..Len(created) :
          /\ created[j].id = created[j].n + 1
          /\ users[created[j].n + 1].id = created[j].id
    /\ \A j, k \in 1..Len(users) : j # k => users[j].id # users[k].id

\* C20: at most one prompt waits for the operator: main's select, input or
\* confirm, or the confirm of one sampling handler.
C20_OnePromptAtATime ==
    Cardinality({i \in DOMAIN bridge : bridge[i].st = "confirm"})
        + (IF pc \in Interactive THEN 1 ELSE 0) <= 1

=============================================================================
